---- MODULE Spec2Model ----
(***************************************************************************)
(* Local Outlier Factor detector of anomdet (src/lof/lof.py).              *)
(*                                                                         *)
(* One LOF object is modelled: its attributes k and X_, the calls          *)
(* __init__, fit and predict, and inside predict the two loops over the    *)
(* rows of X.  Real numbers are exact rationals extended with the IEEE     *)
(* values inf and nan that numpy produces on a division by zero.           *)
(* Distances are held in fixed point, Prec steps per coordinate unit, the  *)
(* square root rounded down to a step.                                     *)
(***************************************************************************)
EXTENDS Integers, Sequences, FiniteSets, TLC

\* ------------------------------------------------------------------ bounds
MaxN == 3
MaxCoord == 2
MaxK == 2
MaxFitN == 2
Prec == 1

\* ---------------------------------------------------------------- state
VARIABLES k, X_, pc, X, tie, indices, distances, k_dists, lrd_value, lof,
          i, writes, ret, hist

vars == <<k, X_, pc, X, tie, indices, distances, k_dists, lrd_value, lof,
          i, writes, ret, hist>>

\* --------------------------------------------------------- extended reals
Abs(a) == IF a < 0 THEN -a ELSE a

RECURSIVE Gcd(_, _)
Gcd(a, b) == IF b = 0 THEN a ELSE Gcd(b, a % b)

Inf == [n |-> 1, d |-> 0]
NaN == [n |-> 0, d |-> 0]
Zero == [n |-> 0, d |-> 1]

IsNaN(a) == a.d = 0 /\ a.n = 0
IsInf(a) == a.d = 0 /\ a.n # 0
IsFinite(a) == a.d # 0

\* the float nearest to n/d; a zero divisor gives inf (n > 0) or nan (n = 0)
Norm(n, d) ==
    IF d = 0 THEN (IF n = 0 THEN NaN ELSE Inf)
    ELSE LET g == Gcd(Abs(n), Abs(d)) IN [n |-> n \div g, d |-> d \div g]

FromInt(a) == [n |-> a, d |-> 1]

\* a + b of floats that are never negative
RAdd(a, b) ==
    IF IsNaN(a) \/ IsNaN(b) THEN NaN
    ELSE IF IsInf(a) \/ IsInf(b) THEN Inf
    ELSE Norm(a.n * b.d + b.n * a.d, a.d * b.d)

\* a / b of floats that are never negative
RDiv(a, b) ==
    IF IsNaN(a) \/ IsNaN(b) THEN NaN
    ELSE IF IsInf(a) THEN (IF IsInf(b) THEN NaN ELSE Inf)
    ELSE IF IsInf(b) THEN Zero
    ELSE LET g1 == Gcd(a.n, b.n)
             g2 == Gcd(a.d, b.d)
             an == IF g1 = 0 THEN a.n ELSE a.n \div g1
             bn == IF g1 = 0 THEN b.n ELSE b.n \div g1
             ad == a.d \div g2
             bd == b.d \div g2
         IN Norm(an * bd, ad * bn)

\* ------------------------------------------------------------- datasets
RECURSIVE ISqrtIter(_, _, _)
ISqrtIter(n, lo, hi) ==
    IF lo >= hi THEN lo
    ELSE LET mid == (lo + hi + 1) \div 2
         IN IF mid * mid <= n THEN ISqrtIter(n, mid, hi)
            ELSE ISqrtIter(n, lo, mid - 1)

\* np.sqrt, rounded down to a whole number
ISqrt(n) == ISqrtIter(n, 0, n)

RECURSIVE SumSeq(_)
SumSeq(s) == IF s = <<>> THEN 0 ELSE Head(s) + SumSeq(Tail(s))

\* Euclidean distance of two points, in steps of 1/Prec
Dist(p, q) ==
    ISqrt(Prec * Prec * SumSeq([c \in 1..Len(p) |-> (p[c] - q[c]) * (p[c] - q[c])]))

\* one-feature datasets of n rows
Rows1D(n) == [1..n -> {<<c>> : c \in 0..MaxCoord}]

\* X = [[0,0],[0,0.1],[0,0.2],[10,10]], coordinates in tenths
ScenarioX == << <<0, 0>>, <<0, 1>>, <<0, 2>>, <<100, 100>> >>

Datasets == (UNION {Rows1D(n) : n \in 0..MaxN}) \cup {ScenarioX}

\* the datasets callers pass to fit, which stores its argument and reads
\* nothing of it: one dataset for each number of rows, n-1, ..., 1, 0
FitData == {[r \in 1..n |-> <<n - r>>] : n \in 0..MaxFitN}

\* datasets that start at 0 and whose every row repeats the row before it or
\* lies one further
Compact(D) ==
    /\ \A r \in 1..Len(D) : Len(D[r]) = 1
    /\ Len(D) >= 1 => D[1][1] = 0
    /\ \A r \in 2..Len(D) : D[r][1] - D[r - 1][1] \in {0, 1}

PureData == {D \in Datasets : Compact(D)}

\* values of the constructor argument k: ints, and the float val + 0.5
KChoices ==
    {[type |-> "int", val |-> v] : v \in (0 - 3)..MaxK}
        \cup {[type |-> "float", val |-> 2]}

\* ------------------------------------------------------- neighbor index
\* position of row j in the visiting order ord
OrdPos(ord, j) == CHOOSE p \in 1..Len(ord) : ord[p] = j

\* row a is reported before row b in the answer for query row i
Before(D, r, t, a, b) ==
    LET da == Dist(D[r], D[a])
        db == Dist(D[r], D[b])
        sa == IF t.self /\ a = r THEN 0 ELSE 1
        sb == IF t.self /\ b = r THEN 0 ELSE 1
    IN \/ da < db
       \/ da = db /\ sa < sb
       \/ da = db /\ sa = sb /\ OrdPos(t.ord, a) < OrdPos(t.ord, b)

\* NearestNeighbors(n_neighbors=m).fit(X).kneighbors(X), row i: indices
KNeighborsRow(D, r, m, t) ==
    [p \in 1..m |->
        CHOOSE j \in 1..Len(D) :
            Cardinality({l \in 1..Len(D) : Before(D, r, t, l, j)}) = p - 1]

KNeighbors(D, m, t) == [r \in 1..Len(D) |-> KNeighborsRow(D, r, m, t)]

\* the distances that go with KNeighbors
KDistances(D, ind) ==
    [r \in 1..Len(D) |-> [p \in 1..Len(ind[r]) |-> Dist(D[r], D[ind[r][p]])]]

\* the library refuses the query: n_neighbors not a positive int, or more
\* neighbors asked for than there are rows
SearchFails(kk, D) ==
    \/ kk.type # "int"
    \/ kk.val + 1 <= 0
    \/ kk.val + 1 > Len(D)

\* a[:, 0:]: the column of the query row is kept
DropFirst_kept(row) == row

\* a[:, 1:]
DropFirst(row) == IF row = <<>> THEN <<>> ELSE Tail(row)

\* distances[:, 0]: the nearest instead of the k-th nearest neighbor
KDists_first(dists) == [r \in 1..Len(dists) |-> dists[r][1]]

\* distances[:, -1]
KDists(dists) == [r \in 1..Len(dists) |-> dists[r][Len(dists[r])]]

\* --------------------------------------------------------------- scoring
Max(a, b) == IF a >= b THEN a ELSE b

\* np.max(np.vstack([temp, k_dists[indices[i]]]), 0)
ReachabilityDists(D, ind, kd, r) ==
    [p \in 1..Len(ind[r]) |-> Max(Dist(D[r], D[ind[r][p]]), kd[ind[r][p]])]

\* temp = X[i, :] - self.X_[indices[i], :]: the distances are taken to the
\* rows of the fitted dataset when it has as many rows as X
LrdValue_stale(kv, D, ind, kd, r) ==
    LET ref == IF X_.set /\ Len(X_.data) = Len(D) THEN X_.data ELSE D
    IN RDiv(FromInt(kv),
            FromInt(SumSeq([p \in 1..Len(ind[r]) |->
                               Max(Dist(D[r], ref[ind[r][p]]), kd[ind[r][p]])])))

\* self.k / sum(reachability_dists)
LrdValue(kv, D, ind, kd, r) ==
    RDiv(FromInt(kv), FromInt(SumSeq(ReachabilityDists(D, ind, kd, r))))

RECURSIVE RSum(_)
RSum(s) == IF s = <<>> THEN Zero ELSE RAdd(Head(s), RSum(Tail(s)))

\* lrd_value[i] / np.sum(lrd_value[indices[i]]) / self.k: the ratio upside down
LofValue_inverted(kv, lrd, ind, r) ==
    RDiv(RDiv(lrd[r], RSum([p \in 1..Len(ind[r]) |-> lrd[ind[r][p]]])), FromInt(kv))

\* np.sum(lrd_value[indices[i]]) / lrd_value[i] / self.k
LofValue(kv, lrd, ind, r) ==
    RDiv(RDiv(RSum([p \in 1..Len(ind[r]) |-> lrd[ind[r][p]]]), lrd[r]), FromInt(kv))

\* for i in xrange(num_rows - 1): the last row is left out
LoopDone_short(idx, n) == idx >= n

\* for i in xrange(num_rows): the loop is over
LoopDone(idx, n) == idx > n

\* ------------------------------------------------------------ operations
Unset == [set |-> FALSE, data |-> <<>>]
NoTie == [ord |-> <<>>, self |-> FALSE]
Ret(op, status, value) == [op |-> op, status |-> status, value |-> value]

ClearLocals ==
    /\ tie' = NoTie
    /\ indices' = <<>>
    /\ distances' = <<>>
    /\ k_dists' = <<>>
    /\ lrd_value' = <<>>
    /\ lof' = <<>>
    /\ i' = 0
    /\ writes' = <<>>

\* hist is not program state: it keeps one earlier predict call made on a
\* detector that was never fitted (its k, its X and the scores it returned),
\* under an index whose tie-breaking is fixed
NoHist == [on |-> FALSE, desc |-> FALSE, set |-> FALSE,
           k |-> 0, X |-> <<>>, lof |-> <<>>]

\* the datasets callers pass to predict
Inputs == IF hist.on THEN PureData ELSE Datasets

\* the tie-breaking rules the index may apply to a query of n rows
\* equidistant rows are reported in ascending or in descending row order,
\* and the query row itself may or may not win every tie
TieRule(n, desc, sf) ==
    [ord |-> [p \in 1..n |-> IF desc THEN n + 1 - p ELSE p], self |-> sf]

TieRules(n) ==
    IF hist.on
    THEN {TieRule(n, hist.desc, FALSE)}
    ELSE {TieRule(n, ds, sf) : ds \in BOOLEAN, sf \in BOOLEAN}

InitDetector ==
    /\ k \in KChoices
    /\ X_ = Unset
    /\ pc = "idle"
    /\ X = <<>>
    /\ tie = NoTie
    /\ indices = <<>>
    /\ distances = <<>>
    /\ k_dists = <<>>
    /\ lrd_value = <<>>
    /\ lof = <<>>
    /\ i = 0
    /\ writes = <<>>
    /\ ret = Ret("construct", "ok", <<>>)

Init == InitDetector /\ hist = NoHist

InitPure ==
    /\ InitDetector
    /\ hist \in {[NoHist EXCEPT !.on = TRUE, !.desc = ds] : ds \in BOOLEAN}

\* LOF(k): a new detector
Construct(kk) ==
    /\ pc = "idle"
    /\ k' = kk
    /\ X_' = Unset
    /\ ret' = Ret("construct", "ok", <<>>)
    /\ X' = <<>>
    /\ ClearLocals
    /\ pc' = "idle"
    /\ UNCHANGED hist

\* self.k <= 0, the type test forgotten
InvalidK_noType(kk) == IF kk.type = "int" THEN kk.val <= 0 ELSE kk.val < 0

\* self.k <= 0 or not isinstance(self.k, int)
InvalidK(kk) ==
    \/ (IF kk.type = "int" THEN kk.val <= 0 ELSE kk.val < 0)
    \/ kk.type # "int"

\* fit(X)
Fit(D) ==
    /\ pc = "idle"
    /\ IF InvalidK(k)
       THEN /\ ret' = Ret("fit", "ValueError", <<>>)
            /\ X_' = X_
       ELSE /\ ret' = Ret("fit", "ok", <<>>)
            /\ X_' = [set |-> TRUE, data |-> D]
    /\ X' = <<>>
    /\ ClearLocals
    /\ UNCHANGED <<k, pc, hist>>

\* predict(X) is entered
PredictCall(D) ==
    /\ pc = "idle"
    /\ pc' = "search"
    /\ X' = D
    /\ ClearLocals
    /\ ret' = Ret("predict", "running", <<>>)
    /\ UNCHANGED <<k, X_, hist>>

\* lines 43-53: the neighbor search, the column drop, k_dists, the zeros
Search ==
    /\ pc = "search"
    /\ IF SearchFails(k, X)
       THEN /\ pc' = "done"
            /\ ret' = Ret("predict", "LibraryError", <<>>)
            /\ UNCHANGED <<tie, indices, distances, k_dists, lrd_value, lof, i, writes>>
       ELSE \E t \in TieRules(Len(X)) :
              LET found == KNeighbors(X, k.val + 1, t)
                  ind == [r \in 1..Len(X) |-> DropFirst(found[r])]
                  dst == [r \in 1..Len(X) |-> DropFirst(KDistances(X, found)[r])]
              IN /\ tie' = t
                 /\ indices' = ind
                 /\ distances' = dst
                 /\ IF k.val = 0
                    THEN \* distances[:, -1] of a matrix without columns
                         /\ pc' = "done"
                         /\ ret' = Ret("predict", "IndexError", <<>>)
                         /\ UNCHANGED <<k_dists, lrd_value, lof, i, writes>>
                    ELSE /\ k_dists' = KDists(dst)
                         /\ lrd_value' = [r \in 1..Len(X) |-> Zero]
                         /\ lof' = <<>>
                         /\ i' = 1
                         /\ writes' = <<>>
                         /\ pc' = "lrd"
                         /\ ret' = ret
    /\ UNCHANGED <<k, X_, X, hist>>

\* lines 54-58: one pass of the first loop; line 60 when it is over
LrdStep ==
    /\ pc = "lrd"
    /\ IF LoopDone(i, Len(X))
       THEN /\ lof' = [r \in 1..Len(X) |-> Zero]
            /\ i' = 1
            /\ pc' = "lof"
            /\ UNCHANGED <<lrd_value, writes>>
       ELSE /\ lrd_value' = [lrd_value EXCEPT ![i] = LrdValue(k.val, X, indices, k_dists, i)]
            /\ writes' = Append(writes, <<"lrd_value", i>>)
            /\ i' = i + 1
            /\ UNCHANGED <<lof, pc>>
    /\ UNCHANGED <<k, X_, X, tie, indices, distances, k_dists, ret, hist>>

\* lines 61-64: one pass of the second loop; the return when it is over
LofStep ==
    /\ pc = "lof"
    /\ IF LoopDone(i, Len(X))
       THEN /\ ret' = Ret("predict", "ok", lof)
            /\ pc' = "done"
            /\ UNCHANGED <<lof, writes, i, hist>>
       ELSE /\ lof' = [lof EXCEPT ![i] = LofValue(k.val, lrd_value, indices, i)]
            /\ writes' = Append(writes, <<"lof", i>>)
            /\ i' = i + 1
            /\ UNCHANGED <<ret, pc, hist>>
    /\ UNCHANGED <<k, X_, X, tie, indices, distances, k_dists, lrd_value>>

\* the call is over: the frame of predict is gone, and the caller has the
\* scores or the exception
Leave ==
    /\ pc = "done"
    /\ pc' = "idle"
    /\ ret' = Ret("predict", ret.status, <<>>)
    /\ X' = <<>>
    /\ ClearLocals
    /\ \E keep \in (IF hist.on /\ ~X_.set /\ ret.status = "ok" THEN BOOLEAN ELSE {FALSE}) :
         hist' = IF keep
                 THEN [hist EXCEPT !.set = TRUE, !.k = k.val, !.X = X, !.lof = ret.value]
                 ELSE hist
    /\ UNCHANGED <<k, X_>>

Next ==
    \/ \E kk \in KChoices : Construct(kk)
    \/ \E D \in FitData : Fit(D)
    \/ \E D \in Inputs : PredictCall(D)
    \/ Search
    \/ LrdStep
    \/ LofStep
    \/ Leave

Spec == Init /\ [][Next]_vars

SpecPure == InitPure /\ [][Next]_vars

\* ------------------------------------------------------------ properties
PositiveInt(kk) == kk.type = "int" /\ kk.val >= 1

\* a predict call has ended, by a return or by an exception
PredictEnded == pc = "done"
Returned == PredictEnded /\ ret.status = "ok"

RLess(a, b) == a.n * b.d < b.n * a.d

RMul(a, b) ==
    IF IsNaN(a) \/ IsNaN(b) THEN NaN
    ELSE IF IsInf(a) \/ IsInf(b) THEN (IF a.n = 0 \/ b.n = 0 THEN NaN ELSE Inf)
    ELSE Norm(a.n * b.n, a.d * b.d)

\* the textbook LOF of every row of D: neighbors(r) are the kv nearest other
\* rows, ties in the order the index visits the rows
Others(D, r) == (1..Len(D)) \ {r}

RefCloser(D, r, t, a, b) ==
    \/ Dist(D[r], D[a]) < Dist(D[r], D[b])
    \/ Dist(D[r], D[a]) = Dist(D[r], D[b]) /\ OrdPos(t.ord, a) < OrdPos(t.ord, b)

RefNeighbors(D, kv, t, r) ==
    {j \in Others(D, r) :
        Cardinality({l \in Others(D, r) : RefCloser(D, r, t, l, j)}) < kv}

RECURSIVE Tabulate(_, _)
Tabulate(F(_), n) == IF n = 0 THEN <<>> ELSE Append(Tabulate(F, n - 1), F(n))

RECURSIVE IntSum(_, _)
IntSum(F(_), S) ==
    IF S = {} THEN 0
    ELSE LET j == CHOOSE x \in S : TRUE IN F(j) + IntSum(F, S \ {j})

RECURSIVE RatSum(_, _)
RatSum(F(_), S) ==
    IF S = {} THEN Zero
    ELSE LET j == CHOOSE x \in S : TRUE IN RAdd(F(j), RatSum(F, S \ {j}))

RefLOF(D, kv, t) ==
    LET Nb(r) == RefNeighbors(D, kv, t, r)
        nb == Tabulate(Nb, Len(D))
        \* k_dist(j): the largest of row j's k neighbor distances
        KD(j) == CHOOSE m \in {Dist(D[j], D[l]) : l \in nb[j]} :
                     \A l \in nb[j] : Dist(D[j], D[l]) <= m
        kd == Tabulate(KD, Len(D))
        \* lrd(r) = k / sum of max(dist(r, j), k_dist(j))
        Lrd(r) == LET Reach(j) == Max(Dist(D[r], D[j]), kd[j])
                  IN RDiv(FromInt(kv), FromInt(IntSum(Reach, nb[r])))
        lrd == Tabulate(Lrd, Len(D))
        \* (sum of lrd(j)) / (lrd(r) * k)
        Lof(r) == LET L(j) == lrd[j]
                  IN RDiv(RatSum(L, nb[r]), RMul(lrd[r], FromInt(kv)))
    IN Tabulate(Lof, Len(D))

\* C1: for a valid k < N, predict returns N scores, and score r is
\* (sum of lrd over the k nearest other rows of r) / (lrd(r) * k)
C1_ScoresFollowFormula ==
    (PredictEnded /\ PositiveInt(k) /\ k.val < Len(X)) =>
        /\ ret.status = "ok"
        /\ Len(ret.value) = Len(X)
        /\ ret.value = RefLOF(X, k.val, tie)

C1_Witness ==
    /\ Returned
    /\ k.val = 2
    /\ X = << <<0>>, <<1>>, <<2>> >>
    /\ ret.value = <<[n |-> 7, d |-> 8], [n |-> 4, d |-> 3], [n |-> 7, d |-> 8]>>

\* C2: fit on a detector whose k is not a positive integer raises the
\* ValueError and leaves the stored dataset as it was
C2_FitRejectsBadK ==
    [][(ret'.op = "fit" /\ ~PositiveInt(k)) =>
          (ret'.status = "ValueError" /\ X_' = X_)]_vars

C2_Witness ==
    /\ ret.op = "fit"
    /\ ret.status = "ValueError"
    /\ k = [type |-> "float", val |-> 2]
    /\ X_ = Unset

\* C3: predict on N <= k rows fails with InsufficientData raised by the
\* detector itself
C3_InsufficientData ==
    (PredictEnded /\ PositiveInt(k) /\ Len(X) <= k.val) =>
        ret.status = "InsufficientData"

\* C4: predict never returns an infinite or not-a-number score
C4_NoInfNoNaN ==
    Returned => \A r \in 1..Len(ret.value) : IsFinite(ret.value[r])

\* C5: after the column drop, the neighbor list of row r has exactly k
\* entries, nearest first, and does not contain r
C5_NeighborsExcludeSelf ==
    (pc \in {"lrd", "lof"}) =>
        \A r \in 1..Len(X) :
            /\ Len(indices[r]) = k.val
            /\ \A p \in 1..(Len(indices[r]) - 1) :
                   Dist(X[r], X[indices[r][p]]) <= Dist(X[r], X[indices[r][p + 1]])
            /\ \A p \in 1..Len(indices[r]) : indices[r][p] # r

\* C6: whenever predict performs its neighbor search on N rows, k is an
\* integer with 1 <= k < N
C6_SearchHasValidK ==
    (pc = "search") => (PositiveInt(k) /\ k.val < Len(X))

\* C7: a predict call returns the scores that a call with the same X on a
\* never fitted detector with the same k returned, whatever was fitted and
\* whatever was predicted in between (so any two such calls agree)
C7_PredictIsPure ==
    (Returned /\ hist.set /\ hist.k = k.val /\ hist.X = X) =>
        ret.value = hist.lof

C7_Witness ==
    /\ Returned
    /\ hist.set /\ hist.k = k.val /\ hist.X = X
    /\ X_.set /\ Len(X_.data) = Len(X) /\ X_.data # X

\* an evenly spaced one-feature grid: no two rows alike, equal gaps between
\* rows next to each other on the line
IsGrid(D) ==
    /\ Len(D) >= 2
    /\ \A r \in 1..Len(D) : Len(D[r]) = 1
    /\ \E lo \in 0..MaxCoord, step \in 1..MaxCoord :
          /\ {D[r][1] : r \in 1..Len(D)} = {lo + step * c : c \in 0..(Len(D) - 1)}
          /\ \A a, b \in 1..Len(D) : a # b => D[a] # D[b]

\* 0.85 <= a <= 1.15
NearOne(a) == IsFinite(a) /\ 85 * a.d <= 100 * a.n /\ 100 * a.n <= 115 * a.d

\* C8 as stated: on an evenly spaced grid every score is within 1.0 +/- 0.15
\* for every k
C8_GridNearOneAnyK ==
    (Returned /\ IsGrid(X)) => \A r \in 1..Len(X) : NearOne(ret.value[r])

\* C8: on an evenly spaced grid and k = 1 every score is within 1.0 +/- 0.15
C8_GridNearOneK1 ==
    (Returned /\ IsGrid(X) /\ k.val = 1) =>
        \A r \in 1..Len(X) : NearOne(ret.value[r])

C8_Witness ==
    /\ Returned
    /\ IsGrid(X)
    /\ Len(X) = 3
    /\ k.val = 1
    /\ \A r \in 1..3 : ret.value[r] = [n |-> 1, d |-> 1]

\* C9: on X = [[0,0],[0,0.1],[0,0.2],[10,10]] with k = 2 the isolated point
\* scores more than twice each clustered point
C9_ScenarioOutlier ==
    (Returned /\ X = ScenarioX /\ k.val = 2) =>
        \A c \in 1..3 :
            /\ IsFinite(ret.value[4]) /\ IsFinite(ret.value[c])
            /\ RLess(RMul(FromInt(2), ret.value[c]), ret.value[4])

C9_Witness == Returned /\ X = ScenarioX /\ k.val = 2

\* C10: a lof entry is written only after every lrd_value entry, and no
\* lrd_value entry is written after a lof entry
C10_Barrier ==
    /\ (\E p \in 1..Len(writes) : writes[p][1] = "lof") =>
          \A j \in 1..Len(X) : \E p \in 1..Len(writes) : writes[p] = <<"lrd_value", j>>
    /\ \A p, q \in 1..Len(writes) :
          (p < q /\ writes[p][1] = "lof") => writes[q][1] = "lof"

C10_Witness ==
    /\ pc = "lof"
    /\ Len(X) = 3
    /\ writes[Len(writes)] = <<"lof", 1>>

====
